---- MODULE Spec2Model ----
(***************************************************************************)
(* The HTTP API of the user administration service                        *)
(* (api/http/api_useradm.go) as a state machine.                           *)
(*                                                                         *)
(* Every request is served by a process in two steps: the handler's        *)
(* prologue (reading the request, parsing and validating it, the early     *)
(* returns) and the handler's call of the application or the store         *)
(* together with the response it writes for the result.  The call is one   *)
(* atomic step of the store; requests of different processes interleave    *)
(* between the two steps.                                                  *)
(*                                                                         *)
(* The application (useradm.App), the store (store.DataStore) and the      *)
(* model package (ValidateNew, Validate) are not part of                   *)
(* api_useradm.go; what they do is modelled from the specification and is  *)
(* marked "spec-modelled" where it is defined.                             *)
(***************************************************************************)
EXTENDS Integers, Sequences, FiniteSets, TLC

----------------------------------------------------------------------------
(* Bounds of the model. *)

\* Requests served in one behaviour.
MaxReqs == 3

\* Ticks of the logical clock.
MaxClock == 2

\* The processes that serve requests concurrently.
Procs == {"p1", "p2"}

\* Tenant identities; the empty string is "no tenant identity".
Tenants == {"t1", "t2"}

NoTenant == ""

\* User ids the store hands out, in this order.
IdPool == <<"u1", "u2", "u3", "u4", "u5", "u6">>

\* A user id no user has.
UnknownId == "u9"

----------------------------------------------------------------------------
(* HTTP status codes used by the handlers. *)

StatusOK == 200

StatusCreated == 201

StatusNoContent == 204

StatusBadRequest == 400

StatusUnauthorized == 401

StatusNotFound == 404

StatusUnprocessableEntity == 422

StatusInternalServerError == 500

----------------------------------------------------------------------------
(* Errors.  An error is modelled by its kind. *)

Nil == "nil"

\* var ErrAuthHeader, ErrUserNotFound (this package)
ErrAuthHeader == "ErrAuthHeader"

ErrUserNotFoundApi == "api.ErrUserNotFound"

\* errors.Wrap(err, "failed to decode request body")
ErrDecode == "ErrDecode"

\* errors.New(...) at the place of the early return
ErrEntityNotFound == "ErrEntityNotFound"

ErrTenantIdMissing == "ErrTenantIdMissing"

ErrParseSettings == "ErrParseSettings"

\* useradm.ErrUnauthorized, useradm.ErrTenantAccountSuspended
ErrUnauthorized == "useradm.ErrUnauthorized"

ErrTenantAccountSuspended == "useradm.ErrTenantAccountSuspended"

\* store.ErrDuplicateEmail, store.ErrUserNotFound
ErrDuplicateEmail == "store.ErrDuplicateEmail"

ErrUserNotFound == "store.ErrUserNotFound"

\* model.ErrPasswordTooShort, and a failed govalidator validation
ErrPasswordTooShort == "model.ErrPasswordTooShort"

ErrValidation == "ErrValidation"

\* any other failure of a collaborator (store unreachable, timeout, ...)
ErrInternal == "ErrInternal"

\* spec-modelled: the text of err.Error() of each error kind.  Distinct
\* kinds carry distinct texts.
ErrMsg(e) ==
    CASE e = ErrAuthHeader -> "invalid or missing auth header"
      [] e = ErrUserNotFoundApi -> "user not found"
      [] e = ErrDecode -> "failed to decode request body"
      [] e = ErrEntityNotFound -> "Entity not found"
      [] e = ErrTenantIdMissing -> "tenant_id must be provided"
      [] e = ErrParseSettings -> "cannot parse request body as json"
      [] e = ErrUnauthorized -> "unauthorized"
      [] e = ErrTenantAccountSuspended -> "tenant account suspended"
      [] e = ErrDuplicateEmail -> "user with a given email already exists"
      [] e = ErrUserNotFound -> "user not found"
      [] e = ErrPasswordTooShort -> "password too short"
      [] e = ErrValidation -> "validation failed"
      [] OTHER -> "error"

----------------------------------------------------------------------------
(* The response writer: every WriteHeader call in order (the first one is  *)
(* the status the client receives), every body written, the users and the  *)
(* token written as data, and the Location header.                         *)

EmptyResponse ==
    [hdr |-> <<>>, body |-> <<>>, users |-> {}, raw |-> <<>>, loc |-> ""]

\* w.WriteHeader(code)
WriteHeader(w, code) == [w EXCEPT !.hdr = Append(@, code)]

\* rest_utils.RestErrWithLog(w, r, l, e, code): the status and a JSON body
\* carrying e.Error()
RestErrWithLog(w, e, code) ==
    [w EXCEPT !.hdr = Append(@, code), !.body = Append(@, ErrMsg(e))]

\* rest_utils.RestErrWithLogInternal(w, r, l, e): 500 and the opaque text
RestErrWithLogInternal(w, e) ==
    [w EXCEPT !.hdr = Append(@, StatusInternalServerError),
              !.body = Append(@, "internal error")]

\* w.WriteJson(v) / w.Write(b): an implicit 200 when no header was written
ImplicitOK(w) == IF w.hdr = <<>> THEN WriteHeader(w, StatusOK) ELSE w

\* The status the client receives.
Status(w) == IF w.hdr = <<>> THEN 0 ELSE w.hdr[1]

----------------------------------------------------------------------------
(* Requests.  One record shape for every handler; a handler reads only     *)
(* its own fields.                                                         *)

NoToken == [sub |-> "", tenant |-> "", iat |-> -1, exp |-> -1]

BaseReq(h, ctx) ==
    [h |-> h, ctx |-> ctx, decodable |-> TRUE, auth |-> TRUE,
     email |-> "", password |-> "", id |-> "", tenantId |-> "",
     userId |-> "", token |-> NoToken, setting |-> ""]

NoReq == BaseReq("none", NoTenant)

VARIABLES
    users,      \* Credential Store: the User records
    createdIn,  \* history: <<user id, tenant the creation was requested for>>
    tokens,     \* history: the tokens issued by Login
    ledger,     \* Revocation Ledger: "revoked since" entries
    suspended,  \* the tenants whose account is suspended
    settings,   \* settings store: tenant -> value
    now,        \* the clock
    pc,         \* per process: "idle", "call" or "done"
    req,        \* per process: the request being served
    cctx,       \* per process: the tenant identity of the context of the call
    resp,       \* per process: the response written
    err,        \* per process: the error of the last parse or call
    calls,      \* per process: the calls made to the application or the store
    served      \* requests accepted so far

vars == <<users, createdIn, tokens, ledger, suspended, settings, now,
          pc, req, cctx, resp, err, calls, served>>

storeVars == <<users, createdIn, tokens, ledger, suspended, settings, now>>

\* A process accepts request r: the handler starts with an empty response.
Accept(p, r) ==
    /\ pc[p] \in {"idle", "done"}
    /\ served < MaxReqs
    /\ served' = served + 1
    /\ req' = [req EXCEPT ![p] = r]
    /\ calls' = [calls EXCEPT ![p] = <<>>]

\* The handler returns.
Return(p, w, e) ==
    /\ pc' = [pc EXCEPT ![p] = "done"]
    /\ resp' = [resp EXCEPT ![p] = w]
    /\ err' = [err EXCEPT ![p] = e]

\* The handler goes on to its call, with context tenant t.
Proceed(p, t) ==
    /\ pc' = [pc EXCEPT ![p] = "call"]
    /\ resp' = [resp EXCEPT ![p] = EmptyResponse]
    /\ err' = [err EXCEPT ![p] = Nil]
    /\ cctx' = [cctx EXCEPT ![p] = t]

Calling(p, h) == pc[p] = "call" /\ req[p].h = h

Call(op, t, a, b) == [op |-> op, tenant |-> t, a |-> a, b |-> b]

InitProcs ==
    /\ pc = [p \in Procs |-> "idle"]
    /\ req = [p \in Procs |-> NoReq]
    /\ cctx = [p \in Procs |-> NoTenant]
    /\ resp = [p \in Procs |-> EmptyResponse]
    /\ err = [p \in Procs |-> Nil]
    /\ calls = [p \in Procs |-> <<>>]
    /\ served = 0

----------------------------------------------------------------------------
(* Settings: SaveSettingsHandler, GetSettingsHandler.                      *)

SettingValues == {"dark", "light"}

NoSetting == ""

SaveSettingsReqs ==
    {[BaseReq("SaveSettings", t) EXCEPT !.decodable = d, !.setting = s] :
        t \in Tenants, d \in BOOLEAN, s \in SettingValues}

GetSettingsReqs == {BaseReq("GetSettings", t) : t \in Tenants}

\* SaveSettingsHandler up to the call: r.DecodeJsonPayload(&settings)
SaveSettingsStart(p, r) ==
    /\ r \in SaveSettingsReqs
    /\ Accept(p, r)
    /\ IF ~r.decodable
       THEN /\ Return(p, RestErrWithLog(EmptyResponse, ErrParseSettings,
                                        StatusBadRequest), ErrParseSettings)
            /\ UNCHANGED cctx
       ELSE Proceed(p, r.ctx)
    /\ UNCHANGED storeVars

\* SaveSettingsHandler after u.db.SaveSettings returned e
SaveSettingsResponse(w, e) ==
    LET w1 == IF e # Nil THEN RestErrWithLogInternal(w, e) ELSE w
    IN  WriteHeader(w1, StatusCreated)

\* spec-modelled: store.SaveSettings(ctx, settings), scoped by the tenant
SaveSettingsCall(p, fail) ==
    /\ Calling(p, "SaveSettings")
    /\ LET e == IF fail THEN ErrInternal ELSE Nil
       IN  /\ settings' = IF e = Nil
                          THEN [settings EXCEPT ![cctx[p]] = req[p].setting]
                          ELSE settings
           /\ Return(p, SaveSettingsResponse(resp[p], e), e)
    /\ calls' = [calls EXCEPT ![p] =
                    Append(@, Call("SaveSettings", cctx[p], req[p].setting, ""))]
    /\ UNCHANGED <<users, createdIn, tokens, ledger, suspended, now,
                   req, cctx, served>>

\* GetSettingsHandler up to the call
GetSettingsStart(p, r) ==
    /\ r \in GetSettingsReqs
    /\ Accept(p, r)
    /\ Proceed(p, r.ctx)
    /\ UNCHANGED storeVars

\* GetSettingsHandler after u.db.GetSettings returned (settings, e)
GetSettingsResponse(w, s, e) ==
    IF e # Nil
    THEN RestErrWithLogInternal(w, e)
    ELSE [ImplicitOK(w) EXCEPT !.body = Append(@, s)]

\* spec-modelled: store.GetSettings(ctx), scoped by the tenant
GetSettingsCall(p, fail) ==
    /\ Calling(p, "GetSettings")
    /\ LET e == IF fail THEN ErrInternal ELSE Nil
       IN  Return(p, GetSettingsResponse(resp[p], settings[cctx[p]], e), e)
    /\ calls' = [calls EXCEPT ![p] =
                    Append(@, Call("GetSettings", cctx[p], "", ""))]
    /\ UNCHANGED <<storeVars, req, cctx, served>>

InitStore ==
    /\ users = {}
    /\ createdIn = {}
    /\ tokens = {}
    /\ ledger = {}
    /\ suspended = {}
    /\ settings = [t \in Tenants |-> NoSetting]
    /\ now = 0

InitSettings == InitStore /\ InitProcs

NextSettings ==
    \E p \in Procs :
        \/ \E r \in SaveSettingsReqs : SaveSettingsStart(p, r)
        \/ \E fail \in BOOLEAN : SaveSettingsCall(p, fail)
        \/ \E r \in GetSettingsReqs : GetSettingsStart(p, r)
        \/ \E fail \in BOOLEAN : GetSettingsCall(p, fail)

SpecSettings == InitSettings /\ [][NextSettings]_vars

----------------------------------------------------------------------------
(* Tokens: AuthLoginHandler, AuthVerifyHandler, DeleteTokensHandler.       *)

Emails == {"a@x.io", "b@x.io"}

GoodPassword == "secret123"

WrongPassword == "letmein00"

\* A tenant whose account is suspended.
SuspendedTenant == "t3"

\* spec-modelled: the lifetime of a token, in clock ticks
TokenTTL == 1

User(id, email, password, tenant) ==
    [id |-> id, email |-> email, password |-> password, tenant |-> tenant]

\* The credentials tried: <<tenant scope, email, password>>.
LoginCreds ==
    {<<"t1", "a@x.io", GoodPassword>>, <<"t1", "b@x.io", GoodPassword>>,
     <<"t2", "a@x.io", GoodPassword>>, <<"t1", "a@x.io", WrongPassword>>,
     <<SuspendedTenant, "a@x.io", GoodPassword>>}

LoginReqs ==
    {[BaseReq("Login", NoTenant) EXCEPT !.auth = FALSE]}
    \cup {[BaseReq("Login", c[1]) EXCEPT !.email = c[2], !.password = c[3]] :
            c \in LoginCreds}

\* AuthLoginHandler up to the call: r.BasicAuth()
AuthLoginStart(p, r) ==
    /\ r \in LoginReqs
    /\ Accept(p, r)
    /\ IF ~r.auth
       THEN /\ Return(p, RestErrWithLog(EmptyResponse, ErrAuthHeader,
                                        StatusUnauthorized), ErrAuthHeader)
            /\ UNCHANGED cctx
       ELSE Proceed(p, r.ctx)
    /\ UNCHANGED storeVars

\* spec-modelled: the users Login's lookup matches in tenant scope t
Matching(t, email, password) ==
    {u \in users : u.tenant = t /\ u.email = email /\ u.password = password}

\* spec-modelled: the error of useradm.Login(ctx, email, pass)
LoginErr(t, email, password, fail) ==
    IF fail = "login" THEN ErrInternal
    ELSE IF Matching(t, email, password) = {} THEN ErrUnauthorized
    ELSE IF t \in suspended THEN ErrTenantAccountSuspended
    ELSE Nil

\* spec-modelled: the token Login constructs for user u
NewToken(u) ==
    [sub |-> u.id, tenant |-> u.tenant, iat |-> now, exp |-> now + TokenTTL]

\* AuthLoginHandler after Login returned e and SignToken returned (raw, se)
AuthLoginResponse(w, e, se, raw) ==
    IF e # Nil
    THEN IF e = ErrUnauthorized \/ e = ErrTenantAccountSuspended
         THEN RestErrWithLog(w, e, StatusUnauthorized)
         ELSE RestErrWithLogInternal(w, e)
    ELSE IF se # Nil
    THEN RestErrWithLogInternal(w, se)
    ELSE [ImplicitOK(w) EXCEPT !.raw = <<raw>>]

\* AuthLoginHandler: u.userAdm.Login, u.userAdm.SignToken and the response
AuthLoginCall(p, fail) ==
    /\ Calling(p, "Login")
    /\ LET r == req[p]
           e == LoginErr(cctx[p], r.email, r.password, fail)
           se == IF fail = "sign" THEN ErrInternal ELSE Nil
           tok == IF e = Nil
                  THEN NewToken(CHOOSE u \in
                                  Matching(cctx[p], r.email, r.password) : TRUE)
                  ELSE NoToken
       IN  /\ tokens' = IF e = Nil /\ se = Nil THEN tokens \cup {tok}
                        ELSE tokens
           /\ Return(p, AuthLoginResponse(resp[p], e, se, tok),
                     IF e # Nil THEN e ELSE se)
           /\ calls' = [calls EXCEPT ![p] =
                 Append(@, Call("Login", cctx[p], r.email, r.password))
                 \o (IF e = Nil THEN <<Call("SignToken", cctx[p], tok.sub, "")>>
                     ELSE <<>>)]
    /\ UNCHANGED <<users, createdIn, ledger, suspended, settings, now,
                   req, cctx, served>>

\* spec-modelled: the ledger entries that revoke token tok
RevokingEntries(tok) ==
    {e \in ledger : /\ e.tenant = tok.tenant
                    /\ e.user \in {"", tok.sub}
                    /\ tok.iat <= e.at}

Revoked(tok) == RevokingEntries(tok) # {}

Expired(tok) == now > tok.exp

\* spec-modelled: the error of useradm.Verify(ctx, token); the signature
\* was checked by the authorization middleware before the handler
VerifyErr(tok, fail) ==
    IF fail THEN ErrInternal
    ELSE IF Expired(tok) \/ Revoked(tok) THEN ErrUnauthorized
    ELSE Nil

Verifies(tok) == VerifyErr(tok, FALSE) = Nil

VerifyReqs ==
    {[BaseReq("Verify", NoTenant) EXCEPT !.token = tok] : tok \in tokens}

\* AuthVerifyHandler up to the call: authz.GetRequestToken(r.Env)
AuthVerifyStart(p, r) ==
    /\ r \in VerifyReqs
    /\ Accept(p, r)
    /\ Proceed(p, r.ctx)
    /\ UNCHANGED storeVars

\* AuthVerifyHandler after Verify returned e
AuthVerifyResponse(w, e) ==
    IF e # Nil
    THEN IF e = ErrUnauthorized
         THEN RestErrWithLog(w, ErrUnauthorized, StatusUnauthorized)
         ELSE RestErrWithLogInternal(w, e)
    ELSE WriteHeader(w, StatusOK)

\* AuthVerifyHandler: u.userAdm.Verify and the response
AuthVerifyCall(p, fail) ==
    /\ Calling(p, "Verify")
    /\ LET e == VerifyErr(req[p].token, fail)
       IN  Return(p, AuthVerifyResponse(resp[p], e), e)
    /\ calls' = [calls EXCEPT ![p] =
                    Append(@, Call("Verify", cctx[p], req[p].token.sub, ""))]
    /\ UNCHANGED <<storeVars, req, cctx, served>>

\* The query parameters tried: <<tenant_id, user_id>>; "" is a missing one.
RevokeQueries ==
    {<<"t1", "">>, <<"t1", "u1">>, <<"t1", UnknownId>>, <<"t2", "">>,
     <<"", "u1">>}

DeleteTokensReqs ==
    {[BaseReq("DeleteTokens", NoTenant) EXCEPT !.tenantId = q[1],
                                               !.userId = q[2]] :
        q \in RevokeQueries}

\* DeleteTokensHandler without the check of tenant_id.
DeleteTokensStartUnchecked(p, r) ==
    /\ r \in DeleteTokensReqs
    /\ Accept(p, r)
    /\ Proceed(p, r.ctx)
    /\ UNCHANGED storeVars

\* DeleteTokensHandler up to the call: the tenant_id query parameter
DeleteTokensStart(p, r) ==
    /\ r \in DeleteTokensReqs
    /\ Accept(p, r)
    /\ IF r.tenantId = ""
       THEN /\ Return(p, RestErrWithLog(EmptyResponse, ErrTenantIdMissing,
                                        StatusBadRequest), ErrTenantIdMissing)
            /\ UNCHANGED cctx
       ELSE Proceed(p, r.ctx)
    /\ UNCHANGED storeVars

\* DeleteTokensHandler passing no user_id on.
DeleteTokensArgsTenantOnly(r) == <<r.tenantId, "">>

\* DeleteTokensHandler: the arguments of u.userAdm.DeleteTokens
DeleteTokensArgs(r) == <<r.tenantId, r.userId>>

\* DeleteTokensHandler answering a revocation with 404.
DeleteTokensResponseNotFound(w, e) ==
    IF e = Nil
    THEN RestErrWithLog(w, ErrUserNotFoundApi, StatusNotFound)
    ELSE RestErrWithLogInternal(w, e)

\* DeleteTokensHandler after DeleteTokens returned e
DeleteTokensResponse(w, e) ==
    IF e = Nil
    THEN WriteHeader(w, StatusNoContent)
    ELSE RestErrWithLogInternal(w, e)

\* spec-modelled: the ledger after RevokeTokens(tenant, user) at time now:
\* one "revoked since" entry per (tenant, user), user "" being the tenant
RevokeTokens(tenant, user) ==
    {e \in ledger : ~(e.tenant = tenant /\ e.user = user)}
    \cup {[tenant |-> tenant, user |-> user, at |-> now]}

\* DeleteTokensHandler: u.userAdm.DeleteTokens and the response
DeleteTokensCall(p, fail) ==
    /\ Calling(p, "DeleteTokens")
    /\ LET a == DeleteTokensArgs(req[p])
           e == IF fail THEN ErrInternal ELSE Nil
       IN  /\ ledger' = IF e = Nil THEN RevokeTokens(a[1], a[2]) ELSE ledger
           /\ Return(p, DeleteTokensResponse(resp[p], e), e)
           /\ calls' = [calls EXCEPT ![p] =
                          Append(@, Call("DeleteTokens", cctx[p], a[1], a[2]))]
    /\ UNCHANGED <<users, createdIn, tokens, suspended, settings, now,
                   req, cctx, served>>

\* Time passes.
Tick ==
    /\ now < MaxClock
    /\ now' = now + 1
    /\ UNCHANGED <<users, createdIn, tokens, ledger, suspended, settings,
                   pc, req, cctx, resp, err, calls, served>>

\* A store with users of three tenants, one of them suspended.
InitTokens ==
    /\ users = {User("u1", "a@x.io", GoodPassword, "t1"),
                User("u2", "b@x.io", GoodPassword, "t1"),
                User("u3", "a@x.io", GoodPassword, "t2"),
                User("u4", "a@x.io", GoodPassword, SuspendedTenant)}
    /\ createdIn = {<<"u1", "t1">>, <<"u2", "t1">>, <<"u3", "t2">>,
                    <<"u4", SuspendedTenant>>}
    /\ tokens = {}
    /\ ledger = {}
    /\ suspended = {SuspendedTenant}
    /\ settings = [t \in Tenants |-> NoSetting]
    /\ now = 0
    /\ InitProcs

NextTokens ==
    \/ \E p \in Procs :
        \/ \E r \in LoginReqs : AuthLoginStart(p, r)
        \/ \E fail \in {"none", "login", "sign"} : AuthLoginCall(p, fail)
        \/ \E r \in VerifyReqs : AuthVerifyStart(p, r)
        \/ \E fail \in BOOLEAN : AuthVerifyCall(p, fail)
        \/ \E r \in DeleteTokensReqs : DeleteTokensStart(p, r)
        \/ \E fail \in BOOLEAN : DeleteTokensCall(p, fail)
    \/ Tick

SpecTokens == InitTokens /\ [][NextTokens]_vars

----------------------------------------------------------------------------
(* Users: AddUserHandler, CreateTenantUserHandler, GetUsersHandler,        *)
(* GetUserHandler, UpdateUserHandler.                                      *)

ShortPassword == "short"

MalformedEmail == "not-an-email"

OtherEmail == "c@x.io"

\* spec-modelled: the password policy's minimum length
MinPasswordLength == 8

\* spec-modelled: the email format check
ValidEmail(e) == e # "" /\ e # MalformedEmail

\* spec-modelled: model.User.ValidateNew / model.UserInternal.ValidateNew
ValidateNew(r) ==
    IF ~ValidEmail(r.email) THEN ErrValidation
    ELSE IF Len(r.password) < MinPasswordLength THEN ErrPasswordTooShort
    ELSE Nil

\* spec-modelled: model.UserUpdate.Validate; "" is a field left out
Validate(r) ==
    IF r.email # "" /\ ~ValidEmail(r.email) THEN ErrValidation
    ELSE IF r.password # "" /\ Len(r.password) < MinPasswordLength
    THEN ErrPasswordTooShort
    ELSE Nil

\* parseUser: the error it returns (Nil: the user is returned)
parseUser(r) == IF ~r.decodable THEN ErrDecode ELSE ValidateNew(r)

\* parseUserInternal: the error it returns
parseUserInternal(r) == IF ~r.decodable THEN ErrDecode ELSE ValidateNew(r)

\* parseUserUpdate: the error it returns
parseUserUpdate(r) == IF ~r.decodable THEN ErrDecode ELSE Validate(r)

\* A request with body <<decodable, email, password>>.
WithBody(r, b) ==
    [r EXCEPT !.decodable = b[1], !.email = b[2], !.password = b[3]]

Undecodable == <<FALSE, "", "">>

NewUserBodies ==
    {Undecodable, <<TRUE, MalformedEmail, GoodPassword>>,
     <<TRUE, "a@x.io", ShortPassword>>, <<TRUE, "a@x.io", GoodPassword>>,
     <<TRUE, "b@x.io", GoodPassword>>}

AddUserReqs ==
    {WithBody(BaseReq("AddUser", t), b) : t \in Tenants, b \in NewUserBodies}

\* spec-modelled: the id the store gives the next user
NextId == IdPool[Cardinality(createdIn) + 1]

\* spec-modelled: the error of the store's insert of a user with this email
\* in tenant t: the uniqueness constraint is checked by the insert itself
CreateUserErr(t, email, fail) ==
    IF fail THEN ErrInternal
    ELSE IF \E u \in users : u.tenant = t /\ u.email = email
    THEN ErrDuplicateEmail
    ELSE Nil

\* spec-modelled: useradm.CreateUser / CreateUserInternal under context
\* tenant t, on behalf of a request for tenant asked
CreateUser(p, t, asked, fail) ==
    LET r == req[p]
        e == CreateUserErr(t, r.email, fail)
    IN  /\ users' = IF e = Nil
                    THEN users \cup {User(NextId, r.email, r.password, t)}
                    ELSE users
        /\ createdIn' = IF e = Nil THEN createdIn \cup {<<NextId, asked>>}
                        ELSE createdIn
        /\ err' = [err EXCEPT ![p] = e]

\* AddUserHandler after parseUser returned the error e
AddUserParseResponse(w, e) ==
    IF e = ErrPasswordTooShort
    THEN RestErrWithLog(w, e, StatusUnprocessableEntity)
    ELSE RestErrWithLog(w, e, StatusBadRequest)

\* AddUserHandler without the return after the response to a parse error.
AddUserStartNoReturn(p, r) ==
    /\ r \in AddUserReqs
    /\ Accept(p, r)
    /\ Proceed(p, r.ctx)
    /\ UNCHANGED storeVars

\* AddUserHandler up to the call: parseUser
AddUserStart(p, r) ==
    /\ r \in AddUserReqs
    /\ Accept(p, r)
    /\ LET e == parseUser(r)
       IN  IF e # Nil
           THEN /\ Return(p, AddUserParseResponse(EmptyResponse, e), e)
                /\ UNCHANGED cctx
           ELSE Proceed(p, r.ctx)
    /\ UNCHANGED storeVars

\* AddUserHandler without the case of store.ErrDuplicateEmail.
AddUserResponseNoDuplicate(w, e, id) ==
    IF e # Nil
    THEN RestErrWithLogInternal(w, e)
    ELSE WriteHeader([w EXCEPT !.loc = id], StatusCreated)

\* AddUserHandler after CreateUser returned e for the user with this id
AddUserResponse(w, e, id) ==
    IF e # Nil
    THEN IF e = ErrDuplicateEmail
         THEN RestErrWithLog(w, e, StatusUnprocessableEntity)
         ELSE RestErrWithLogInternal(w, e)
    ELSE WriteHeader([w EXCEPT !.loc = id], StatusCreated)

\* AddUserHandler: u.userAdm.CreateUser and the response
AddUserCall(p, fail) ==
    /\ Calling(p, "AddUser")
    /\ CreateUser(p, cctx[p], cctx[p], fail)
    /\ pc' = [pc EXCEPT ![p] = "done"]
    /\ resp' = [resp EXCEPT ![p] = AddUserResponse(@, err'[p], NextId)]
    /\ calls' = [calls EXCEPT ![p] =
                    Append(@, Call("CreateUser", cctx[p], req[p].email, ""))]
    /\ UNCHANGED <<tokens, ledger, suspended, settings, now,
                   req, cctx, served>>

CreateTenantUserReqs ==
    {WithBody([BaseReq("CreateTenantUser", NoTenant) EXCEPT !.tenantId = t], b) :
        t \in Tenants \cup {""},
        b \in {Undecodable, <<TRUE, "a@x.io", ShortPassword>>,
               <<TRUE, "a@x.io", GoodPassword>>}}

\* getTenantContext returning the context it was given.
getTenantContextKept(ctx, tenantId) == ctx

\* getTenantContext: the tenant identity of the context it returns
getTenantContext(ctx, tenantId) == IF tenantId # "" THEN tenantId ELSE ctx

\* CreateTenantUserHandler after parseUserInternal returned the error e
CreateTenantUserParseResponse(w, e) ==
    RestErrWithLog(w, e, StatusBadRequest)

\* CreateTenantUserHandler up to the call: parseUserInternal, the path
\* parameter, getTenantContext
CreateTenantUserStart(p, r) ==
    /\ r \in CreateTenantUserReqs
    /\ Accept(p, r)
    /\ LET e == parseUserInternal(r)
       IN  IF e # Nil
           THEN /\ Return(p, CreateTenantUserParseResponse(EmptyResponse, e), e)
                /\ UNCHANGED cctx
           ELSE IF r.tenantId = ""
           THEN /\ Return(p, RestErrWithLog(EmptyResponse, ErrEntityNotFound,
                                            StatusNotFound), ErrEntityNotFound)
                /\ UNCHANGED cctx
           ELSE Proceed(p, getTenantContext(r.ctx, r.tenantId))
    /\ UNCHANGED storeVars

\* CreateTenantUserHandler after CreateUserInternal returned e
CreateTenantUserResponse(w, e) ==
    IF e # Nil
    THEN IF e = ErrDuplicateEmail
         THEN RestErrWithLog(w, e, StatusUnprocessableEntity)
         ELSE RestErrWithLogInternal(w, e)
    ELSE WriteHeader(w, StatusCreated)

\* CreateTenantUserHandler: u.userAdm.CreateUserInternal and the response
CreateTenantUserCall(p, fail) ==
    /\ Calling(p, "CreateTenantUser")
    /\ CreateUser(p, cctx[p], req[p].tenantId, fail)
    /\ pc' = [pc EXCEPT ![p] = "done"]
    /\ resp' = [resp EXCEPT ![p] = CreateTenantUserResponse(@, err'[p])]
    /\ calls' = [calls EXCEPT ![p] =
          Append(@, Call("CreateUserInternal", cctx[p], req[p].email, ""))]
    /\ UNCHANGED <<tokens, ledger, suspended, settings, now,
                   req, cctx, served>>

GetUsersReqs == {BaseReq("GetUsers", t) : t \in Tenants}

\* GetUsersHandler up to the call
GetUsersStart(p, r) ==
    /\ r \in GetUsersReqs
    /\ Accept(p, r)
    /\ Proceed(p, r.ctx)
    /\ UNCHANGED storeVars

\* spec-modelled: useradm.GetUsers(ctx), scoped by the tenant
GetUsers(t) == {u \in users : u.tenant = t}

\* GetUsersHandler after GetUsers returned (us, e)
GetUsersResponse(w, us, e) ==
    IF e # Nil
    THEN RestErrWithLogInternal(w, e)
    ELSE [ImplicitOK(w) EXCEPT !.users = us]

\* GetUsersHandler: u.userAdm.GetUsers and the response
GetUsersCall(p, fail) ==
    /\ Calling(p, "GetUsers")
    /\ LET e == IF fail THEN ErrInternal ELSE Nil
       IN  Return(p, GetUsersResponse(resp[p], GetUsers(cctx[p]), e), e)
    /\ calls' = [calls EXCEPT ![p] = Append(@, Call("GetUsers", cctx[p], "", ""))]
    /\ UNCHANGED <<storeVars, req, cctx, served>>

GetUserReqs ==
    {[BaseReq("GetUser", t) EXCEPT !.id = i] :
        t \in Tenants, i \in {"u1", UnknownId}}

\* GetUserHandler up to the call
GetUserStart(p, r) ==
    /\ r \in GetUserReqs
    /\ Accept(p, r)
    /\ Proceed(p, r.ctx)
    /\ UNCHANGED storeVars

\* spec-modelled: useradm.GetUser(ctx, id), scoped by the tenant: the users
\* found (none: nil)
GetUser(t, id) == {u \in users : u.tenant = t /\ u.id = id}

\* GetUserHandler after GetUser returned (us, e)
GetUserResponse(w, us, e) ==
    IF e # Nil
    THEN RestErrWithLogInternal(w, e)
    ELSE IF us = {}
    THEN RestErrWithLog(w, ErrUserNotFoundApi, StatusNotFound)
    ELSE [ImplicitOK(w) EXCEPT !.users = us]

\* GetUserHandler: u.userAdm.GetUser and the response
GetUserCall(p, fail) ==
    /\ Calling(p, "GetUser")
    /\ LET e == IF fail THEN ErrInternal ELSE Nil
       IN  Return(p, GetUserResponse(resp[p], GetUser(cctx[p], req[p].id), e), e)
    /\ calls' = [calls EXCEPT ![p] =
                    Append(@, Call("GetUser", cctx[p], req[p].id, ""))]
    /\ UNCHANGED <<storeVars, req, cctx, served>>

\* The updates tried: <<context tenant, id, body>>.
UpdateUserInputs ==
    {<<"t1", "u1", Undecodable>>,
     <<"t1", "u1", <<TRUE, MalformedEmail, "">>>>,
     <<"t1", "u1", <<TRUE, "", ShortPassword>>>>,
     <<"t1", "u1", <<TRUE, "b@x.io", "">>>>,
     <<"t1", "u1", <<TRUE, OtherEmail, WrongPassword>>>>,
     <<"t1", UnknownId, <<TRUE, OtherEmail, "">>>>,
     <<"t2", "u1", <<TRUE, OtherEmail, "">>>>}

UpdateUserReqs ==
    {WithBody([BaseReq("UpdateUser", i[1]) EXCEPT !.id = i[2]], i[3]) :
        i \in UpdateUserInputs}

\* UpdateUserHandler after parseUserUpdate returned the error e
UpdateUserParseResponse(w, e) ==
    IF e = ErrPasswordTooShort
    THEN RestErrWithLog(w, e, StatusUnprocessableEntity)
    ELSE RestErrWithLog(w, e, StatusBadRequest)

\* UpdateUserHandler up to the call: parseUserUpdate
UpdateUserStart(p, r) ==
    /\ r \in UpdateUserReqs
    /\ Accept(p, r)
    /\ LET e == parseUserUpdate(r)
       IN  IF e # Nil
           THEN /\ Return(p, UpdateUserParseResponse(EmptyResponse, e), e)
                /\ UNCHANGED cctx
           ELSE Proceed(p, r.ctx)
    /\ UNCHANGED storeVars

\* spec-modelled: the error of useradm.UpdateUser(ctx, id, update)
UpdateUserErr(t, id, email, fail) ==
    IF fail THEN ErrInternal
    ELSE IF GetUser(t, id) = {} THEN ErrUserNotFound
    ELSE IF email # "" /\ \E u \in users :
                             u.tenant = t /\ u.email = email /\ u.id # id
    THEN ErrDuplicateEmail
    ELSE Nil

\* spec-modelled: the record after a partial update
Updated(u, email, password) ==
    [u EXCEPT !.email = IF email # "" THEN email ELSE @,
              !.password = IF password # "" THEN password ELSE @]

\* UpdateUserHandler after UpdateUser returned e: no return follows the
\* error responses
UpdateUserResponse(w, e) ==
    LET w1 == IF e # Nil
              THEN IF e = ErrDuplicateEmail
                   THEN RestErrWithLog(w, e, StatusUnprocessableEntity)
                   ELSE IF e = ErrUserNotFound
                   THEN RestErrWithLog(w, e, StatusNotFound)
                   ELSE RestErrWithLogInternal(w, e)
              ELSE w
    IN  WriteHeader(w1, StatusNoContent)

\* UpdateUserHandler: u.userAdm.UpdateUser and the response
UpdateUserCall(p, fail) ==
    /\ Calling(p, "UpdateUser")
    /\ LET r == req[p]
           e == UpdateUserErr(cctx[p], r.id, r.email, fail)
       IN  /\ users' = IF e = Nil
                       THEN {IF u.tenant = cctx[p] /\ u.id = r.id
                             THEN Updated(u, r.email, r.password) ELSE u :
                                u \in users}
                       ELSE users
           /\ Return(p, UpdateUserResponse(resp[p], e), e)
           /\ calls' = [calls EXCEPT ![p] =
                          Append(@, Call("UpdateUser", cctx[p], r.id, r.email))]
    /\ UNCHANGED <<createdIn, tokens, ledger, suspended, settings, now,
                   req, cctx, served>>

\* A store that holds two users of tenant t1.
InitUsers ==
    /\ users = {User("u1", "a@x.io", GoodPassword, "t1"),
                User("u2", "b@x.io", GoodPassword, "t1")}
    /\ createdIn = {<<"u1", "t1">>, <<"u2", "t1">>}
    /\ tokens = {}
    /\ ledger = {}
    /\ suspended = {}
    /\ settings = [t \in Tenants |-> NoSetting]
    /\ now = 0
    /\ InitProcs

NextUsers ==
    \E p \in Procs :
        \/ \E r \in AddUserReqs : AddUserStart(p, r)
        \/ \E fail \in BOOLEAN : AddUserCall(p, fail)
        \/ \E r \in CreateTenantUserReqs : CreateTenantUserStart(p, r)
        \/ \E fail \in BOOLEAN : CreateTenantUserCall(p, fail)
        \/ \E r \in GetUsersReqs : GetUsersStart(p, r)
        \/ \E fail \in BOOLEAN : GetUsersCall(p, fail)
        \/ \E r \in GetUserReqs : GetUserStart(p, r)
        \/ \E fail \in BOOLEAN : GetUserCall(p, fail)
        \/ \E r \in UpdateUserReqs : UpdateUserStart(p, r)
        \/ \E fail \in BOOLEAN : UpdateUserCall(p, fail)

SpecUsers == InitUsers /\ [][NextUsers]_vars

\* Concurrent sign-ups: every process serves one AddUser request, against
\* an empty store that does not fail.
InitCreate == InitStore /\ InitProcs

NextCreate ==
    \E p \in Procs :
        \/ \E r \in AddUserReqs : pc[p] = "idle" /\ AddUserStart(p, r)
        \/ AddUserCall(p, FALSE)

SpecCreate == InitCreate /\ [][NextCreate]_vars

----------------------------------------------------------------------------
(* Properties.                                                             *)

Done(p, h) == pc[p] = "done" /\ req[p].h = h

\* The handler of process p made no call to the application or the store.
NoCall(p) == calls[p] = <<>>

ParseErrors == {ErrDecode, ErrValidation, ErrPasswordTooShort}

\* C1: every UpdateUser request that reaches the application gets exactly
\* one status: 204 exactly when UpdateUser returned no error, 422 for
\* DuplicateEmail, 404 for UserNotFound, 500 for any other error, and no
\* 204 beside an error status.
C1_UpdateUserOneStatus ==
    \A p \in Procs :
        Done(p, "UpdateUser") /\ ~NoCall(p) =>
            /\ Len(resp[p].hdr) = 1
            /\ (Status(resp[p]) = StatusNoContent <=> err[p] = Nil)
            /\ err[p] = ErrDuplicateEmail =>
                   Status(resp[p]) = StatusUnprocessableEntity
            /\ err[p] = ErrUserNotFound => Status(resp[p]) = StatusNotFound
            /\ err[p] = ErrInternal =>
                   Status(resp[p]) = StatusInternalServerError

\* C2: for every SaveSettings request with a parsable body, 201 is written
\* exactly when the store's SaveSettings returned no error; when the store
\* fails the generic internal error is the only response.
C2_SaveSettingsCreatedIffSaved ==
    \A p \in Procs :
        Done(p, "SaveSettings") /\ req[p].decodable =>
            /\ (\E i \in DOMAIN resp[p].hdr : resp[p].hdr[i] = StatusCreated)
                   <=> err[p] = Nil
            /\ err[p] # Nil =>
                   resp[p] = RestErrWithLogInternal(EmptyResponse, err[p])

\* C3: on both creation paths (AddUserHandler, CreateTenantUserHandler) a
\* too short password is answered with 422 and malformed input with 400.
C3_PasswordTooShortDistinct ==
    \A p \in Procs :
        (Done(p, "AddUser") \/ Done(p, "CreateTenantUser")) =>
            /\ err[p] = ErrPasswordTooShort =>
                   resp[p].hdr = <<StatusUnprocessableEntity>>
            /\ err[p] \in {ErrDecode, ErrValidation} =>
                   resp[p].hdr = <<StatusBadRequest>>

\* A request of a handler that parses a user, whose body its parse function
\* rejects.
Rejected(r) ==
    \/ r.h = "AddUser" /\ parseUser(r) # Nil
    \/ r.h = "CreateTenantUser" /\ parseUserInternal(r) # Nil
    \/ r.h = "UpdateUser" /\ parseUserUpdate(r) # Nil

\* A too short password in a request that creates or updates a user.
TooShort(r) ==
    /\ r.h \in {"AddUser", "CreateTenantUser", "UpdateUser"}
    /\ r.decodable
    /\ r.password # ""
    /\ Len(r.password) < MinPasswordLength

C4_NoCallAfterParseError ==
    \A p \in Procs :
        pc[p] # "idle" /\ (Rejected(req[p]) \/ TooShort(req[p])) =>
            /\ pc[p] = "done"
            /\ err[p] \in ParseErrors
            /\ NoCall(p)

\* A step that changes the User records is the call of a request that its
\* parse function accepted.
C4_StoreChange ==
    users' # users =>
        \E p \in Procs :
            /\ pc[p] = "call" /\ pc'[p] = "done"
            /\ req[p].h \in {"AddUser", "CreateTenantUser", "UpdateUser"}
            /\ ~Rejected(req[p]) /\ ~TooShort(req[p])

\* C4: when parseUser, parseUserInternal or parseUserUpdate returns an
\* error (undecodable body, failed validation, too short password) the
\* handler returns without calling CreateUser, CreateUserInternal or
\* UpdateUser, and the request leaves the set of User records unchanged.
C4_ValidationBeforeStore ==
    []C4_NoCallAfterParseError /\ [][C4_StoreChange]_vars

C4_Witness ==
    \E p \in Procs :
        /\ Done(p, "AddUser")
        /\ TooShort(req[p])
        /\ err[p] = ErrPasswordTooShort
        /\ NoCall(p)

LoginFailures == {ErrUnauthorized, ErrTenantAccountSuspended}

\* C5: two Login requests that fail, one with Unauthorized and one with
\* TenantAccountSuspended, get the same response (status and body).
C5_LoginFailuresLookAlike ==
    \A p, q \in Procs :
        /\ Done(p, "Login") /\ err[p] \in LoginFailures
        /\ Done(q, "Login") /\ err[q] \in LoginFailures
        => resp[p] = resp[q]

\* The token is one RevokeTokens(tenant, user) is about.
Covers(tenant, user, tok) ==
    tok.tenant = tenant /\ (user = "" \/ tok.sub = user)

C6_VerifyIffNotRevoked ==
    \A tok \in tokens : ~Expired(tok) => (Verifies(tok) <=> ~Revoked(tok))

C6_VerifyStep ==
    \A p \in Procs :
        /\ Calling(p, "Verify") /\ pc'[p] = "done"
        /\ err'[p] # ErrInternal
        /\ ~Expired(req[p].token)
        => IF Revoked(req[p].token)
           THEN resp'[p].hdr = <<StatusUnauthorized>>
           ELSE resp'[p].hdr = <<StatusOK>>

C6_RevokeStep ==
    \A p \in Procs :
        Calling(p, "DeleteTokens") /\ pc'[p] = "done" /\ err'[p] = Nil =>
            \A tok \in tokens :
                IF Covers(req[p].tenantId, req[p].userId, tok)
                THEN ~Verifies(tok)'
                ELSE Verifies(tok)' <=> Verifies(tok)

\* C6: a token with a valid signature and expiry fails Verify exactly when
\* the ledger holds an entry of its tenant, tenant-wide or for its subject,
\* revoked at or after the token was issued; RevokeTokens(tenant, user)
\* makes every issued token of that user (of the tenant, when user is
\* empty) fail Verify and changes the verdict of no other token.
C6_RevocationSemantics ==
    /\ []C6_VerifyIffNotRevoked
    /\ [][C6_VerifyStep]_vars
    /\ [][C6_RevokeStep]_vars

C6_Witness ==
    \E p \in Procs : \E t1, t2 \in tokens :
        /\ Done(p, "DeleteTokens") /\ err[p] = Nil /\ req[p].userId # ""
        /\ Covers(req[p].tenantId, req[p].userId, t1)
        /\ ~Expired(t1) /\ ~Verifies(t1)
        /\ t2.tenant = t1.tenant /\ t2.sub # t1.sub
        /\ Verifies(t2)

\* Both processes served an AddUser request that passed validation, for
\* the same email in the same tenant.
SameSignUp(p, q) ==
    /\ p # q
    /\ Done(p, "AddUser") /\ Done(q, "AddUser")
    /\ ~NoCall(p) /\ ~NoCall(q)
    /\ req[p].ctx = req[q].ctx
    /\ req[p].email = req[q].email

C8_Isolation ==
    /\ \A u \in users : <<u.id, u.tenant>> \in createdIn
    /\ \A p \in Procs :
           Done(p, "GetUsers") \/ Done(p, "GetUser") =>
               \A u \in resp[p].users : <<u.id, req[p].ctx>> \in createdIn

\* CreateUserInternal is called only under the tenant of the request path.
C8_InternalContext ==
    \A p \in Procs :
        req[p].h = "CreateTenantUser" /\ ~NoCall(p) =>
            /\ req[p].tenantId # ""
            /\ calls[p] = <<Call("CreateUserInternal", req[p].tenantId,
                                 req[p].email, "")>>

\* C8 as stated: tenant isolation; CreateTenantUserHandler calls
\* CreateUserInternal only under the non-empty tenant id of the path, and
\* answers 404 without the call when that id is empty.
C8_IsolationAnd404 ==
    /\ C8_Isolation
    /\ C8_InternalContext
    /\ \A p \in Procs :
           Done(p, "CreateTenantUser") /\ req[p].tenantId = "" =>
               NoCall(p) /\ resp[p].hdr = <<StatusNotFound>>

\* C8 as amended: with an empty tenant id the handler answers 404 when the
\* body parses and validates and 400 when it does not, in both cases
\* without the call.
C8_IsolationAndEmptyTenant ==
    /\ C8_Isolation
    /\ C8_InternalContext
    /\ \A p \in Procs :
           Done(p, "CreateTenantUser") /\ req[p].tenantId = "" =>
               /\ NoCall(p)
               /\ resp[p].hdr = IF parseUserInternal(req[p]) = Nil
                                THEN <<StatusNotFound>>
                                ELSE <<StatusBadRequest>>

C8_Witness ==
    \E p, q \in Procs :
        /\ Done(p, "CreateTenantUser")
        /\ resp[p].hdr = <<StatusCreated>>
        /\ \E u \in users : u.tenant = req[p].tenantId /\ u.email = req[p].email
        /\ Done(q, "GetUsers")
        /\ req[q].ctx # req[p].tenantId
        /\ resp[q].hdr = <<StatusOK>>
        /\ resp[q].users # {}

\* The tokens that verify.
ValidTokens == {tok \in tokens : Verifies(tok)}

\* RevokeTokens(tenant, user) was called before and no token it is about
\* was issued since.
RevokedBefore(tenant, user) ==
    \E e \in ledger :
        /\ e.tenant = tenant /\ e.user = user
        /\ \A tok \in tokens : Covers(tenant, user, tok) => tok.iat <= e.at

C9_RevokeStep ==
    \A p \in Procs :
        Calling(p, "DeleteTokens") /\ pc'[p] = "done" =>
            /\ err'[p] \in {Nil, ErrInternal}
            /\ err'[p] = Nil => resp'[p].hdr = <<StatusNoContent>>
            /\ StatusNotFound \notin {resp'[p].hdr[i] : i \in DOMAIN resp'[p].hdr}
            /\ err'[p] = Nil /\ RevokedBefore(req[p].tenantId, req[p].userId)
                   => ValidTokens' = ValidTokens

C10_DeleteTokensContract ==
    /\ \A e \in ledger : e.tenant # ""
    /\ \A p \in Procs :
           /\ Calling(p, "DeleteTokens") => req[p].tenantId # "" /\ NoCall(p)
           /\ Done(p, "DeleteTokens") =>
                  IF req[p].tenantId = ""
                  THEN NoCall(p) /\ resp[p].hdr = <<StatusBadRequest>>
                  ELSE /\ calls[p] = <<Call("DeleteTokens", req[p].ctx,
                                            req[p].tenantId, req[p].userId)>>
                       /\ (resp[p].hdr = <<StatusNoContent>> <=> err[p] = Nil)
                       /\ err[p] # Nil =>
                              resp[p].hdr = <<StatusInternalServerError>>

C10_Witness ==
    \E p, q \in Procs :
        /\ Done(p, "DeleteTokens") /\ req[p].tenantId = ""
        /\ resp[p].hdr = <<StatusBadRequest>>
        /\ Done(q, "DeleteTokens") /\ req[q].tenantId # ""
        /\ req[q].userId = ""
        /\ resp[q].hdr = <<StatusNoContent>>
        /\ \E e \in ledger : e.tenant = req[q].tenantId /\ e.user = ""

====
